---- MODULE Spec2Model ----
(***************************************************************************)
(* A model of the sop package manager (soplang/sop): the manifest sop.toml, *)
(* the module cache sop_modules/, the commands add, setup, remove and       *)
(* update, the version policy check_latest_version, the parsing of sop.toml *)
(* and the dispatch of the commands by the command line.                    *)
(*                                                                          *)
(* Strings are sequences of one-character strings, so that split('.'),      *)
(* str::parse::<u32> and format! are computed and not assumed.  A u32 is a  *)
(* record of two 16-bit halves, so that its full width is kept.             *)
(***************************************************************************)
EXTENDS Integers, Sequences, FiniteSets, TLC

VARIABLES manifest, cache, last, faults, calls, vq, lq, proc, adds

vars == <<manifest, cache, last, faults, calls, vq, lq, proc, adds>>

(***************************************************************************)
(* Strings and numbers                                                      *)
(***************************************************************************)

\* Option<T>, and a path that may hold nothing: None is the empty sequence,
\* Some(x) the sequence of x alone
None == <<>>

Some(x) == <<x>>

IsSome(o) == o # <<>>

Unwrap(o) == o[1]

Dot == "."

Digits == <<"0", "1", "2", "3", "4", "5", "6", "7", "8", "9">>

IsDigit(c) == \E i \in 1..10 : Digits[i] = c

DigitVal(c) == (CHOOSE i \in 1..10 : Digits[i] = c) - 1

\* 2^16: a u32 is kept as hi * Half + lo
Half == 65536

U32(h, l) == [hi |-> h, lo |-> l]

U32Zero == U32(0, 0)

U32Max == U32(Half - 1, Half - 1)

\* v * 10 + d in u32, None when the result does not fit (checked_mul / checked_add)
MulAdd10(v, d) ==
    LET l == v.lo * 10 + d
        h == v.hi * 10 + (l \div Half)
    IN IF h >= Half THEN None ELSE Some(U32(h, l % Half))

RECURSIVE ParseDigits(_, _)
ParseDigits(s, acc) ==
    IF s = <<>> THEN Some(acc)
    ELSE IF ~IsDigit(Head(s)) THEN None
    ELSE LET nxt == MulAdd10(acc, DigitVal(Head(s)))
         IN IF nxt = None THEN None ELSE ParseDigits(Tail(s), Unwrap(nxt))

\* <u32 as FromStr>::from_str: an optional '+', then one or more decimal
\* digits, no overflow; None stands for Err(ParseIntError)
ParseU32(s) ==
    IF s = <<>> THEN None
    ELSE LET d == IF Head(s) = "+" THEN Tail(s) ELSE s
         IN IF d = <<>> THEN None ELSE ParseDigits(d, U32Zero)

\* v divided by ten: quotient and remainder
DivMod10(v) ==
    LET qh == v.hi \div 10
        rl == (v.hi % 10) * Half + v.lo
    IN [q |-> U32(qh, rl \div 10), r |-> rl % 10]

RECURSIVE FormatDigits(_)
FormatDigits(v) ==
    IF v = U32Zero THEN <<>>
    ELSE LET dm == DivMod10(v) IN Append(FormatDigits(dm.q), Digits[dm.r + 1])

\* Display for u32: decimal, no sign, no leading zeros
FormatU32(v) == IF v = U32Zero THEN <<"0">> ELSE FormatDigits(v)

\* v + 1 with the u32 width kept (wrapping_add)
WrappingIncr(v) ==
    IF v.lo + 1 < Half THEN U32(v.hi, v.lo + 1)
    ELSE U32((v.hi + 1) % Half, 0)

\* str::split('.') collected into a Vec: the empty string gives one empty part
RECURSIVE Split(_)
Split(s) ==
    IF s = <<>> THEN << <<>> >>
    ELSE LET rest == Split(Tail(s))
         IN IF Head(s) = Dot THEN << <<>> >> \o rest
            ELSE << <<Head(s)>> \o rest[1] >> \o Tail(rest)

Latest == <<"l", "a", "t", "e", "s", "t">>

V100 == <<"1", ".", "0", ".", "0">>

\* .parse().unwrap_or(0)
ParseOrZero(s) == IF ParseU32(s) = None THEN U32Zero ELSE Unwrap(ParseU32(s))

\* format!("{}.{}.{}", major, minor, patch)
FormatVersion(major, minor, patch) ==
    FormatU32(major) \o <<Dot>> \o FormatU32(minor) \o <<Dot>> \o FormatU32(patch)

(***************************************************************************)
(* update.rs: check_latest_version.  rnd is what rand::random() returns;    *)
(* overflowChecks tells whether the build panics on integer overflow (a     *)
(* debug build) or wraps (a release build).  The result is Ok(value) or a   *)
(* panic; usedRand tells whether rand::random() was called.  package is not *)
(* read by the function.                                                    *)
(***************************************************************************)
VOk(v, used) == [kind |-> "ok", value |-> v, usedRand |-> used]

VPanic == [kind |-> "panic", value |-> <<>>, usedRand |-> FALSE]

\* check_latest_version with "latest" taken as up to date
check_latest_version_keeps_latest(package, current_version, rnd, overflowChecks) ==
    LET version_parts == Split(current_version)
    IN IF current_version = Latest THEN VOk(current_version, FALSE)
       ELSE IF Len(version_parts) # 3 THEN VOk(V100, FALSE)
       ELSE LET major == ParseOrZero(version_parts[1])
                minor == ParseOrZero(version_parts[2])
                patch == ParseOrZero(version_parts[3])
            IN IF patch = U32Max /\ overflowChecks THEN VPanic
               ELSE IF rnd THEN VOk(FormatVersion(major, minor, WrappingIncr(patch)), TRUE)
               ELSE VOk(current_version, TRUE)

check_latest_version(package, current_version, rnd, overflowChecks) ==
    LET version_parts == Split(current_version)
    IN IF current_version = Latest THEN VOk(V100, FALSE)
       ELSE IF Len(version_parts) # 3 THEN VOk(V100, FALSE)
       ELSE LET major == ParseOrZero(version_parts[1])
                minor == ParseOrZero(version_parts[2])
                patch == ParseOrZero(version_parts[3])
            IN IF patch = U32Max /\ overflowChecks THEN VPanic
               ELSE IF rnd THEN VOk(FormatVersion(major, minor, WrappingIncr(patch)), TRUE)
               ELSE VOk(current_version, TRUE)

(***************************************************************************)
(* The file system: the manifest sop.toml and the module cache sop_modules. *)
(***************************************************************************)

Packages == {"foo", "bar"}

\* HashMap::new()
EmptyMap == [q \in {} |-> <<>>]

\* HashMap::insert
Insert(d, k, v) == [q \in (DOMAIN d) \cup {k} |-> IF q = k THEN v ELSE d[q]]

\* HashMap::remove
Delete(d, k) == [q \in (DOMAIN d) \ {k} |-> d[q]]

\* toml_parser.rs: SopToml.  Of a manifest the model keeps whether the TOML
\* parser accepts it and its dependencies: None (no [dependencies] table) or
\* Some(map from package names to specifiers).  The manifest file is None
\* (no file) or Some(SopToml).
SopToml(deps) == [parses |-> TRUE, dependencies |-> deps]

\* a file the parser rejects: what a write that failed part-way leaves
Corrupt == [parses |-> FALSE, dependencies |-> None]

\* toml_parser.rs: create_default_config / init.rs: create_default_project
create_default_config == SopToml(Some(EmptyMap))

\* the keys of the manifest's dependency map ({} when there is none)
DepKeys(m) ==
    IF IsSome(m) /\ IsSome(Unwrap(m).dependencies)
    THEN DOMAIN Unwrap(Unwrap(m).dependencies) ELSE {}

\* the specifier the manifest gives a key
DepOf(m, k) == Unwrap(Unwrap(m).dependencies)[k]

\* a package directory sop_modules/<package>: None (no directory) or Some of
\* its two files, each None (no file) or Some(content): the metadata's name
\* and version, the library's package name
PkgDir(meta, lib) == [meta |-> meta, lib |-> lib]

Metadata(package, version) == [name |-> package, version |-> version]

EmptyDir == PkgDir(None, None)

Installed(package, version) == PkgDir(Some(Metadata(package, version)), Some(package))

\* the cache: whether sop_modules exists, and each package's directory
Cache(root, pkgs) == [root |-> root, pkgs |-> pkgs]

EmptyCache == Cache(FALSE, [q \in Packages |-> None])

(***************************************************************************)
(* I/O faults.  A command runs with at most one failing I/O call: the first *)
(* failure returns from the command.  A fault names the call that fails:    *)
(* its site and, for a call on a package directory, the package.  variant   *)
(* tells what a failing call had already done: a failing fs::write of the   *)
(* manifest may have truncated it, a failing fs::remove_dir_all may have    *)
(* removed some of the files.                                               *)
(***************************************************************************)
Fault(site, pkg) == [site |-> site, pkg |-> pkg]

NoFault == Fault("none", "none")

Faults ==
    {NoFault}
    \cup {Fault(s, "none") : s \in {"read", "write_manifest", "mkdir_root"}}
    \cup {Fault(s, q) : s \in {"mkdir_pkg", "write_meta", "write_lib", "rmdir"},
                        q \in Packages}

\* variant.truncated: the failing manifest write truncated the file;
\* variant.meta, variant.lib: the failing remove_dir_all removed that file
Variants == [truncated : BOOLEAN, meta : BOOLEAN, lib : BOOLEAN]

NoVariant == [truncated |-> FALSE, meta |-> FALSE, lib |-> FALSE]

\* the result of an I/O call on the cache
IoOk(c) == [res |-> "ok", failed |-> NoFault, c |-> c]

IoErr(fault, c) == [res |-> "IoError", failed |-> fault, c |-> c]

\* utils.rs: file_exists, on the manifest path
file_exists(m) == IsSome(m)

\* toml_parser.rs: read_sop_toml
read_sop_toml(m, fault) ==
    IF ~IsSome(m) THEN [res |-> "NotFound", failed |-> NoFault, config |-> Corrupt]
    ELSE IF fault.site = "read"
    THEN [res |-> "IoError", failed |-> fault, config |-> Corrupt]
    ELSE IF ~Unwrap(m).parses
    THEN [res |-> "ParseError", failed |-> NoFault, config |-> Corrupt]
    ELSE [res |-> "ok", failed |-> NoFault, config |-> Unwrap(m)]

\* toml_parser.rs: write_sop_toml: fs::write opens the file truncating it and
\* then writes; a failure leaves the old content or a truncated file
write_sop_toml(m, config, fault, variant) ==
    IF fault.site = "write_manifest"
    THEN [res |-> "IoError", failed |-> fault,
          m |-> IF variant.truncated THEN Some(Corrupt) ELSE m]
    ELSE [res |-> "ok", failed |-> NoFault, m |-> Some(config)]

\* utils.rs: ensure_dir_exists, on sop_modules
ensure_modules_dir(c, fault) ==
    IF c.root THEN IoOk(c)
    ELSE IF fault.site = "mkdir_root" THEN IoErr(fault, c)
    ELSE IoOk([c EXCEPT !.root = TRUE])

\* utils.rs: ensure_dir_exists, on sop_modules/<package> (create_dir_all
\* makes the parents too)
ensure_dir_exists(c, package, fault) ==
    IF IsSome(c.pkgs[package]) THEN IoOk(c)
    ELSE IF fault = Fault("mkdir_pkg", package) THEN IoErr(fault, c)
    ELSE IoOk(Cache(TRUE, [c.pkgs EXCEPT ![package] = Some(EmptyDir)]))

\* the package directory with one file set
WithMeta(c, package, meta) ==
    [c EXCEPT !.pkgs[package] = Some(PkgDir(meta, Unwrap(@).lib))]

WithLib(c, package, lib) ==
    [c EXCEPT !.pkgs[package] = Some(PkgDir(Unwrap(@).meta, lib))]

\* the two fs::write calls of install_package, in a directory that exists: a
\* failing write leaves no valid file
WriteFiles(c, package, version, fault) ==
    IF fault = Fault("write_meta", package)
    THEN IoErr(fault, WithMeta(c, package, None))
    ELSE LET c1 == WithMeta(c, package, Some(Metadata(package, version)))
         IN IF fault = Fault("write_lib", package)
            THEN IoErr(fault, WithLib(c1, package, None))
            ELSE IoOk(WithLib(c1, package, Some(package)))

\* install_package without the return on an existing directory
add_install_package_always_writes(c, package, version, fault) ==
    LET mk == ensure_dir_exists(c, package, fault)
    IN IF mk.res # "ok" THEN mk
       ELSE WriteFiles(mk.c, package, version, fault)

\* add.rs: install_package
add_install_package(c, package, version, fault) ==
    IF IsSome(c.pkgs[package]) THEN IoOk(c)
    ELSE LET mk == ensure_dir_exists(c, package, fault)
         IN IF mk.res # "ok" THEN mk
            ELSE WriteFiles(mk.c, package, version, fault)

\* install_package without the return on an existing directory
setup_install_package_always_writes(c, package, version, fault) ==
    LET mk == ensure_dir_exists(c, package, fault)
    IN IF mk.res # "ok" THEN mk
       ELSE WriteFiles(mk.c, package, version, fault)

\* setup.rs: install_package (the same text as add.rs's)
setup_install_package(c, package, version, fault) ==
    IF IsSome(c.pkgs[package]) THEN IoOk(c)
    ELSE LET mk == ensure_dir_exists(c, package, fault)
         IN IF mk.res # "ok" THEN mk
            ELSE WriteFiles(mk.c, package, version, fault)

\* update.rs: install_package: no short-circuit on an existing directory
update_install_package(c, package, version, fault) ==
    LET mk == ensure_dir_exists(c, package, fault)
    IN IF mk.res # "ok" THEN mk
       ELSE WriteFiles(mk.c, package, version, fault)

\* fs::remove_dir_all on sop_modules in place of sop_modules/<package>
remove_dir_all_modules(c, package, fault, variant) ==
    IF fault = Fault("rmdir", package)
    THEN IoErr(fault,
               [c EXCEPT !.pkgs[package] =
                   Some(PkgDir(IF variant.meta THEN None ELSE Unwrap(@).meta,
                               IF variant.lib THEN None ELSE Unwrap(@).lib))])
    ELSE IoOk(EmptyCache)

\* fs::remove_dir_all on sop_modules/<package>, which exists
remove_dir_all(c, package, fault, variant) ==
    IF fault = Fault("rmdir", package)
    THEN IoErr(fault,
               [c EXCEPT !.pkgs[package] =
                   Some(PkgDir(IF variant.meta THEN None ELSE Unwrap(@).meta,
                               IF variant.lib THEN None ELSE Unwrap(@).lib))])
    ELSE IoOk([c EXCEPT !.pkgs[package] = None])

(***************************************************************************)
(* The commands.  Each returns what the command returned (res: "ok" or the  *)
(* error kind), the I/O call that failed, the files as it left them, the    *)
(* install_package calls it made and, for update, the versions it checked.  *)
(***************************************************************************)
Out(res, failed, m, c, installs, checked) ==
    [res |-> res, failed |-> failed, m |-> m, c |-> c,
     installs |-> installs, checked |-> checked]

InstallCall(package, version, r) == [pkg |-> package, ver |-> version, res |-> r]

\* add.rs: execute with the package installed before the manifest is written
add_dependency_installs_first(m, c, config, deps0, package, version_str, fault, variant) ==
    LET md == ensure_modules_dir(c, fault)
        ins == add_install_package(md.c, package, version_str, fault)
        wr == write_sop_toml(m, [config EXCEPT
                                    !.dependencies =
                                        Some(Insert(deps0, package, version_str))],
                             fault, variant)
    IN IF md.res # "ok" THEN Out(md.res, md.failed, m, md.c, <<>>, <<>>)
       ELSE IF ins.res # "ok"
       THEN Out(ins.res, ins.failed, m, ins.c,
                <<InstallCall(package, version_str, ins.res)>>, <<>>)
       ELSE Out(wr.res, wr.failed, wr.m, ins.c,
                <<InstallCall(package, version_str, ins.res)>>, <<>>)

\* add.rs: execute, from the insertion on (lines 43-61): the manifest is
\* written first, then the package is installed
add_dependency(m, c, config, deps0, package, version_str, fault, variant) ==
    LET wr == write_sop_toml(m, [config EXCEPT
                                    !.dependencies =
                                        Some(Insert(deps0, package, version_str))],
                             fault, variant)
        md == ensure_modules_dir(c, fault)
        ins == add_install_package(md.c, package, version_str, fault)
    IN IF wr.res # "ok" THEN Out(wr.res, wr.failed, wr.m, c, <<>>, <<>>)
       ELSE IF md.res # "ok" THEN Out(md.res, md.failed, wr.m, md.c, <<>>, <<>>)
       ELSE Out(ins.res, ins.failed, wr.m, ins.c,
                <<InstallCall(package, version_str, ins.res)>>, <<>>)

\* config.dependencies, with the empty map add.rs puts where there is none
\* (lines 30-32)
DepsOrNew(config) ==
    IF IsSome(config.dependencies) THEN Unwrap(config.dependencies) ELSE EmptyMap

\* --version, or "latest" (add.rs, lines 11-14)
VersionStr(version) == IF IsSome(version) THEN Unwrap(version) ELSE Latest

\* add.rs: execute without the contains_key check
add_execute_unchecked(m, c, package, version, fault, variant) ==
    LET rd == read_sop_toml(m, fault)
    IN IF ~file_exists(m) THEN Out("NotFound", NoFault, m, c, <<>>, <<>>)
       ELSE IF rd.res # "ok" THEN Out(rd.res, rd.failed, m, c, <<>>, <<>>)
       ELSE add_dependency(m, c, rd.config, DepsOrNew(rd.config), package,
                           VersionStr(version), fault, variant)

\* add.rs: execute
add_execute(m, c, package, version, fault, variant) ==
    LET rd == read_sop_toml(m, fault)
    IN IF ~file_exists(m) THEN Out("NotFound", NoFault, m, c, <<>>, <<>>)
       ELSE IF rd.res # "ok" THEN Out(rd.res, rd.failed, m, c, <<>>, <<>>)
       ELSE IF package \in DOMAIN DepsOrNew(rd.config)
       THEN Out("AlreadyPresent", NoFault, m, c, <<>>, <<>>)
       ELSE add_dependency(m, c, rd.config, DepsOrNew(rd.config), package,
                           VersionStr(version), fault, variant)

\* add.rs: execute, up to the insertion in the map in memory (lines 11-44):
\* the result, and for "ok" the config to save
add_load(m, package, version) ==
    LET rd == read_sop_toml(m, NoFault)
    IN IF ~file_exists(m) THEN [res |-> "NotFound", config |-> Corrupt]
       ELSE IF rd.res # "ok" THEN [res |-> rd.res, config |-> Corrupt]
       ELSE IF package \in DOMAIN DepsOrNew(rd.config)
       THEN [res |-> "AlreadyPresent", config |-> Corrupt]
       ELSE [res |-> "ok",
             config |-> [rd.config EXCEPT
                            !.dependencies =
                                Some(Insert(DepsOrNew(rd.config), package,
                                            VersionStr(version)))]]

\* a save that reads the file again and keeps the entries it finds there
add_save_merging(m, config) ==
    IF IsSome(m) /\ Unwrap(m).parses
    THEN Some([config EXCEPT
                  !.dependencies =
                      Some([q \in DOMAIN DepsOrNew(Unwrap(m)) \cup DOMAIN Unwrap(@) |->
                               IF q \in DOMAIN Unwrap(@) THEN Unwrap(@)[q]
                               ELSE DepsOrNew(Unwrap(m))[q]])])
    ELSE Some(config)

\* add.rs: execute, the save (line 47): the config in memory replaces the
\* file, whatever the file holds by then
add_save(m, config) == write_sop_toml(m, config, NoFault, NoVariant).m

\* add.rs: execute, the install (lines 50-52)
add_install(c, package, version_str) ==
    add_install_package(ensure_modules_dir(c, NoFault).c, package, version_str, NoFault).c

\* setup.rs: execute with "latest" resolved and written back to the manifest
RECURSIVE setup_loop_pins(_, _, _, _, _, _)
setup_loop_pins(m, c, deps, order, fault, installs) ==
    IF order = <<>>
    THEN Out("ok", NoFault,
             Some(SopToml(Some([q \in DOMAIN deps |->
                                  IF deps[q] = Latest THEN V100 ELSE deps[q]]))),
             c, installs, <<>>)
    ELSE LET package == Head(order)
             ins == setup_install_package(c, package, deps[package], fault)
             log == Append(installs, InstallCall(package, deps[package], ins.res))
         IN IF ins.res # "ok" THEN Out(ins.res, ins.failed, m, ins.c, log, <<>>)
            ELSE setup_loop_pins(m, ins.c, deps, Tail(order), fault, log)

\* setup.rs: execute, the loop over the dependencies: order is the order in
\* which the HashMap yields its keys
RECURSIVE setup_loop(_, _, _, _, _, _)
setup_loop(m, c, deps, order, fault, installs) ==
    IF order = <<>> THEN Out("ok", NoFault, m, c, installs, <<>>)
    ELSE LET package == Head(order)
             ins == setup_install_package(c, package, deps[package], fault)
             log == Append(installs, InstallCall(package, deps[package], ins.res))
         IN IF ins.res # "ok" THEN Out(ins.res, ins.failed, m, ins.c, log, <<>>)
            ELSE setup_loop(m, ins.c, deps, Tail(order), fault, log)

\* setup.rs: execute
setup_execute(m, c, order, fault) ==
    LET rd == read_sop_toml(m, fault)
        md == ensure_modules_dir(c, fault)
    IN IF ~file_exists(m) THEN Out("NotFound", NoFault, m, c, <<>>, <<>>)
       ELSE IF rd.res # "ok" THEN Out(rd.res, rd.failed, m, c, <<>>, <<>>)
       ELSE IF md.res # "ok" THEN Out(md.res, md.failed, m, md.c, <<>>, <<>>)
       ELSE IF IsSome(rd.config.dependencies)
               /\ DOMAIN Unwrap(rd.config.dependencies) # {}
       THEN setup_loop(m, md.c, Unwrap(rd.config.dependencies), order, fault, <<>>)
       ELSE Out("ok", NoFault, m, md.c, <<>>, <<>>)

\* remove.rs: execute with the package directory left in place
remove_dependency_keeps_dir(m, c, config, package, fault, variant) ==
    LET wr == write_sop_toml(m, [config EXCEPT
                                    !.dependencies = Some(Delete(Unwrap(@), package))],
                             fault, variant)
    IN Out(wr.res, wr.failed, wr.m, c, <<>>, <<>>)

\* remove.rs: execute with a missing package directory taken as an error
remove_dependency_strict(m, c, config, package, fault, variant) ==
    LET wr == write_sop_toml(m, [config EXCEPT
                                    !.dependencies = Some(Delete(Unwrap(@), package))],
                             fault, variant)
        rm == remove_dir_all(c, package, fault, variant)
    IN IF wr.res # "ok" THEN Out(wr.res, wr.failed, wr.m, c, <<>>, <<>>)
       ELSE IF IsSome(c.pkgs[package])
       THEN Out(rm.res, rm.failed, wr.m, rm.c, <<>>, <<>>)
       ELSE Out("NotFound", NoFault, wr.m, c, <<>>, <<>>)

\* remove.rs: execute, from the removal on (lines 38-61): the manifest is
\* written first, then the package directory is deleted if it exists
remove_dependency(m, c, config, package, fault, variant) ==
    LET wr == write_sop_toml(m, [config EXCEPT
                                    !.dependencies = Some(Delete(Unwrap(@), package))],
                             fault, variant)
        rm == remove_dir_all(c, package, fault, variant)
    IN IF wr.res # "ok" THEN Out(wr.res, wr.failed, wr.m, c, <<>>, <<>>)
       ELSE IF IsSome(c.pkgs[package])
       THEN Out(rm.res, rm.failed, wr.m, rm.c, <<>>, <<>>)
       ELSE Out("ok", NoFault, wr.m, c, <<>>, <<>>)

\* remove.rs: execute without the contains_key check
remove_execute_unchecked(m, c, package, fault, variant) ==
    LET rd == read_sop_toml(m, fault)
    IN IF ~file_exists(m) THEN Out("NotFound", NoFault, m, c, <<>>, <<>>)
       ELSE IF rd.res # "ok" THEN Out(rd.res, rd.failed, m, c, <<>>, <<>>)
       ELSE IF ~IsSome(rd.config.dependencies)
       THEN Out("NoDependencies", NoFault, m, c, <<>>, <<>>)
       ELSE remove_dependency(m, c, rd.config, package, fault, variant)

\* remove.rs: execute
remove_execute(m, c, package, fault, variant) ==
    LET rd == read_sop_toml(m, fault)
    IN IF ~file_exists(m) THEN Out("NotFound", NoFault, m, c, <<>>, <<>>)
       ELSE IF rd.res # "ok" THEN Out(rd.res, rd.failed, m, c, <<>>, <<>>)
       ELSE IF ~IsSome(rd.config.dependencies)
       THEN Out("NoDependencies", NoFault, m, c, <<>>, <<>>)
       ELSE IF package \notin DOMAIN Unwrap(rd.config.dependencies)
       THEN Out("NotPresent", NoFault, m, c, <<>>, <<>>)
       ELSE remove_dependency(m, c, rd.config, package, fault, variant)

CheckedVersion(package, from, to) == [pkg |-> package, from |-> from, to |-> to]

UpdOut(res, failed, deps, c, installs, checked) ==
    [res |-> res, failed |-> failed, deps |-> deps, c |-> c,
     installs |-> installs, checked |-> checked]

\* update.rs: execute for one package, reinstalled whatever the version
update_apply_always_reinstalls(deps, c, pkg_name, version, lv, fault, variant) ==
    LET latest_version == lv.value
        rm == IF IsSome(c.pkgs[pkg_name])
              THEN remove_dir_all(c, pkg_name, fault, variant) ELSE IoOk(c)
        ins == update_install_package(rm.c, pkg_name, latest_version, fault)
        chk == <<CheckedVersion(pkg_name, version, latest_version)>>
    IN IF lv.kind = "panic" THEN UpdOut("panic", NoFault, deps, c, <<>>, <<>>)
       ELSE IF rm.res # "ok"
       THEN UpdOut(rm.res, rm.failed, Insert(deps, pkg_name, latest_version), rm.c,
                   <<>>, chk)
       ELSE UpdOut(ins.res, ins.failed, Insert(deps, pkg_name, latest_version), ins.c,
                   <<InstallCall(pkg_name, latest_version, ins.res)>>, chk)

\* update.rs: execute for one package without dependencies.insert
update_apply_keeps_entry(deps, c, pkg_name, version, lv, fault, variant) ==
    LET latest_version == lv.value
        rm == IF IsSome(c.pkgs[pkg_name])
              THEN remove_dir_all(c, pkg_name, fault, variant) ELSE IoOk(c)
        ins == update_install_package(rm.c, pkg_name, latest_version, fault)
        chk == <<CheckedVersion(pkg_name, version, latest_version)>>
    IN IF lv.kind = "panic" THEN UpdOut("panic", NoFault, deps, c, <<>>, <<>>)
       ELSE IF latest_version = version THEN UpdOut("ok", NoFault, deps, c, <<>>, chk)
       ELSE IF rm.res # "ok" THEN UpdOut(rm.res, rm.failed, deps, rm.c, <<>>, chk)
       ELSE UpdOut(ins.res, ins.failed, deps, ins.c,
                   <<InstallCall(pkg_name, latest_version, ins.res)>>, chk)

\* update.rs: execute, what it does for one package once check_latest_version
\* has returned lv (lines 51-71 for a named package, 86-108 in the loop over
\* all): deps is the in-memory map.  A panic of check_latest_version ends
\* the process.
update_apply(deps, c, pkg_name, version, lv, fault, variant) ==
    LET latest_version == lv.value
        rm == IF IsSome(c.pkgs[pkg_name])
              THEN remove_dir_all(c, pkg_name, fault, variant) ELSE IoOk(c)
        ins == update_install_package(rm.c, pkg_name, latest_version, fault)
        chk == <<CheckedVersion(pkg_name, version, latest_version)>>
    IN IF lv.kind = "panic" THEN UpdOut("panic", NoFault, deps, c, <<>>, <<>>)
       ELSE IF latest_version = version THEN UpdOut("ok", NoFault, deps, c, <<>>, chk)
       ELSE IF rm.res # "ok"
       THEN UpdOut(rm.res, rm.failed, Insert(deps, pkg_name, latest_version), rm.c,
                   <<>>, chk)
       ELSE UpdOut(ins.res, ins.failed, Insert(deps, pkg_name, latest_version), ins.c,
                   <<InstallCall(pkg_name, latest_version, ins.res)>>, chk)

\* update.rs: execute, the check of one package and what follows it (lines
\* 49-71, 84-108)
update_one(deps, c, pkg_name, version, rnd, overflowChecks, fault, variant) ==
    update_apply(deps, c, pkg_name, version,
                 check_latest_version(pkg_name, version, rnd, overflowChecks),
                 fault, variant)

\* update.rs: execute, the loop over deps_to_update (lines 80-109): order is
\* the order in which the cloned HashMap yields its keys, rnd[p] what
\* rand::random() returns when p is checked.  update_next is the rest of
\* the loop after one package: the first error returns.
RECURSIVE update_loop(_, _, _, _, _, _, _, _, _, _)
RECURSIVE update_next(_, _, _, _, _, _, _, _, _)
\* the rest of the loop with the error kept and the other packages updated
update_next_continues(one, deps_to_update, rest, rnd, overflowChecks, fault, variant, installs, checked) ==
    IF one.res # "ok"
    THEN [update_loop(one.deps, one.c, deps_to_update, rest, rnd, overflowChecks,
                      fault, variant, installs \o one.installs,
                      checked \o one.checked)
             EXCEPT !.res = one.res, !.failed = one.failed]
    ELSE update_loop(one.deps, one.c, deps_to_update, rest, rnd, overflowChecks,
                     fault, variant, installs \o one.installs, checked \o one.checked)

update_next(one, deps_to_update, rest, rnd, overflowChecks, fault, variant, installs, checked) ==
    IF one.res # "ok"
    THEN UpdOut(one.res, one.failed, one.deps, one.c,
                installs \o one.installs, checked \o one.checked)
    ELSE update_loop(one.deps, one.c, deps_to_update, rest, rnd, overflowChecks,
                     fault, variant, installs \o one.installs, checked \o one.checked)

update_loop(deps, c, deps_to_update, order, rnd, overflowChecks, fault, variant, installs, checked) ==
    IF order = <<>> THEN UpdOut("ok", NoFault, deps, c, installs, checked)
    ELSE update_next(update_one(deps, c, Head(order), deps_to_update[Head(order)],
                                rnd[Head(order)], overflowChecks, fault, variant),
                     deps_to_update, Tail(order), rnd, overflowChecks, fault, variant,
                     installs, checked)

\* update.rs: execute with the manifest written on the error paths too
update_save_always(m, config, upd, fault, variant) ==
    LET wr == write_sop_toml(m, [config EXCEPT !.dependencies = Some(upd.deps)],
                             fault, variant)
    IN IF upd.res # "ok"
       THEN Out(upd.res, upd.failed, wr.m, upd.c, upd.installs, upd.checked)
       ELSE Out(wr.res, wr.failed, wr.m, upd.c, upd.installs, upd.checked)

\* update.rs: execute, its end (lines 122-125): the manifest is written once,
\* after the packages, and only when none of them returned an error
update_save(m, config, upd, fault, variant) ==
    LET wr == write_sop_toml(m, [config EXCEPT !.dependencies = Some(upd.deps)],
                             fault, variant)
    IN IF upd.res # "ok"
       THEN Out(upd.res, upd.failed, m, upd.c, upd.installs, upd.checked)
       ELSE Out(wr.res, wr.failed, wr.m, upd.c, upd.installs, upd.checked)

\* update.rs: execute.  package is None (update all) or Some(name).
update_execute(m, c, package, order, rnd, overflowChecks, fault, variant) ==
    LET rd == read_sop_toml(m, fault)
        md == ensure_modules_dir(c, fault)
    IN IF ~file_exists(m) THEN Out("NotFound", NoFault, m, c, <<>>, <<>>)
       ELSE IF rd.res # "ok" THEN Out(rd.res, rd.failed, m, c, <<>>, <<>>)
       ELSE IF ~IsSome(rd.config.dependencies)
               \/ DOMAIN Unwrap(rd.config.dependencies) = {}
       THEN Out("ok", NoFault, m, c, <<>>, <<>>)
       ELSE IF md.res # "ok" THEN Out(md.res, md.failed, m, md.c, <<>>, <<>>)
       ELSE IF IsSome(package)
               /\ Unwrap(package) \notin DOMAIN Unwrap(rd.config.dependencies)
       THEN Out("NotPresent", NoFault, m, md.c, <<>>, <<>>)
       ELSE IF IsSome(package)
       THEN update_save(m, rd.config,
                        update_one(Unwrap(rd.config.dependencies), md.c,
                                   Unwrap(package),
                                   Unwrap(rd.config.dependencies)[Unwrap(package)],
                                   rnd[Unwrap(package)], overflowChecks, fault, variant),
                        fault, variant)
       ELSE update_save(m, rd.config,
                        update_loop(Unwrap(rd.config.dependencies), md.c,
                                    Unwrap(rd.config.dependencies), order, rnd,
                                    overflowChecks, fault, variant, <<>>, <<>>),
                        fault, variant)

\* run.rs: execute: script_found tells whether the script file exists (the
\* script given, or the entry of the manifest)
run_execute(m, script_found) ==
    LET rd == read_sop_toml(m, NoFault)
    IN IF ~file_exists(m) THEN "NotFound"
       ELSE IF rd.res # "ok" THEN rd.res
       ELSE IF ~script_found THEN "ScriptNotFound"
       ELSE "ok"

\* init.rs: execute with -y: an error in a directory that is not empty,
\* else the default manifest is written (src/main.so is left out)
init_execute(m, c) ==
    IF IsSome(m) \/ c.root THEN Out("NotEmpty", NoFault, m, c, <<>>, <<>>)
    ELSE Out("ok", NoFault, Some(create_default_config), c, <<>>, <<>>)

\* cli.rs: Cli::execute: init is dispatched to init.rs; setup, add, remove,
\* run and update print "not yet implemented" and return Ok(())
cli_execute(command, m, c) ==
    IF command.cmd = "init" THEN init_execute(m, c)
    ELSE Out("ok", NoFault, m, c, <<>>, <<>>)

(***************************************************************************)
(* The state machine.  manifest and cache are the files.  last records the  *)
(* last command: its arguments, its result, the I/O call that failed, its   *)
(* install_package calls, the versions update checked, and the files before *)
(* it ran.  faults counts the commands that met an I/O failure.             *)
(***************************************************************************)

\* the highest patch number update's simulated registry offers
MaxPatch == 1

\* the commands of a run that meet an I/O failure
MaxFaults == 1

\* the calls of install_package made in a row on one package
MaxCalls == 2

\* the length of the specifiers check_latest_version is tried on
MaxLen == 5

Files(m, c) == [m |-> m, c |-> c]

Cmd(cmd, pkg, ver, o, before) ==
    [cmd |-> cmd, pkg |-> pkg, ver |-> ver, res |-> o.res, failed |-> o.failed,
     installs |-> o.installs, checked |-> o.checked, before |-> before]

NoCmd == Cmd("none", "none", None, Out("none", NoFault, None, EmptyCache, <<>>, <<>>),
             Files(None, EmptyCache))

NoCalls == [pkg |-> "none", ver |-> <<>>, start |-> EmptyCache, results |-> <<>>]

InstallResult(fn, r) == [fn |-> fn, res |-> r.res, failed |-> r.failed, c |-> r.c]

NoQuery ==
    [asked |-> FALSE, package |-> "none", current |-> <<>>, rnd |-> FALSE,
     overflowChecks |-> FALSE, result |-> VOk(<<>>, FALSE)]

\* toml_parser.rs: ProjectConfig: the keys of [project] that have no
\* #[serde(default)], and those that have one
RequiredFields == {"name", "version", "status", "entry"}

DefaultedFields ==
    {"description", "license", "author", "repository", "homepage", "keywords",
     "categories"}

ProjectFields == RequiredFields \cup DefaultedFields

\* a key in the text of sop.toml: absent, present with a value of the type
\* of its field, or present with a value of another type.  A file without a
\* [project] table is a file with every key of it absent.
KeyStates == {"absent", "valid", "mistyped"}

Content(project, dependencies) == [project |-> project, dependencies |-> dependencies]

\* the result of a load: res, and for "ok" the fields of the SopToml: each
\* project field holds the value of the file or its default, dependencies is
\* None or Some
Loaded(res, project, dependencies) ==
    [res |-> res, project |-> project, dependencies |-> dependencies]

LoadErr(res) == Loaded(res, [f \in ProjectFields |-> "none"], None)

\* toml::from_str::<SopToml>: a key without a default that is absent, or a
\* key with a value of the wrong type, is an error; an absent Option is None
from_str(content) ==
    IF \E f \in RequiredFields : content.project[f] = "absent"
    THEN LoadErr("ParseError")
    ELSE IF \/ \E f \in ProjectFields : content.project[f] = "mistyped"
            \/ content.dependencies = "mistyped"
    THEN LoadErr("ParseError")
    ELSE Loaded("ok",
                [f \in ProjectFields |->
                    IF content.project[f] = "valid" THEN "value" ELSE "default"],
                IF content.dependencies = "valid" THEN Some(EmptyMap) ELSE None)

\* toml_parser.rs: read_sop_toml on the text of the file: file is None (no
\* file) or Some(content), readFails whether fs::read_to_string fails
read_content(file, readFails) ==
    IF ~IsSome(file) THEN LoadErr("NotFound")
    ELSE IF readFails THEN LoadErr("IoError")
    ELSE from_str(Unwrap(file))

NoLoad == [asked |-> FALSE, file |-> None, readFails |-> FALSE,
           result |-> LoadErr("none")]

\* a command line: the command and its arguments
Command(cmd, pkg, ver) == [cmd |-> cmd, pkg |-> pkg, ver |-> ver]

\* main.rs: main: the exit code, and what is written to the error stream
Exit(res) ==
    [exit |-> IF res = "ok" THEN 0 ELSE 1,
     stderr |-> IF res = "ok" THEN None ELSE Some(<<"Error:", res>>)]

NoProc == [command |-> Command("none", "none", None), exit |-> 0, stderr |-> None]

\* the processes that run add at the same time
Procs == {1, 2}

\* a process that runs add: where it is (load, save, install, done), its
\* arguments, the config it holds in memory and its result
AddProc(pc, pkg, ver, config, res) ==
    [pc |-> pc, pkg |-> pkg, ver |-> ver, config |-> config, res |-> res]

\* run: the processes; saves: the processes in the order of their saves
NoAdds == [run |-> [p \in Procs |-> AddProc("none", "none", None, Corrupt, "none")],
           saves |-> <<>>]

\* what a failing call may have done, for the call that fails
VariantsOf(fault) ==
    IF fault.site = "write_manifest"
    THEN {[NoVariant EXCEPT !.truncated = t] : t \in BOOLEAN}
    ELSE IF fault.site = "rmdir"
    THEN {[NoVariant EXCEPT !.meta = a, !.lib = b] : a \in BOOLEAN, b \in BOOLEAN}
    ELSE {NoVariant}

\* the faults a command that touches the directories of ps can meet
FaultsOn(ps) ==
    IF faults < MaxFaults THEN {f \in Faults : f.pkg = "none" \/ f.pkg \in ps}
    ELSE {NoFault}

\* the orders in which a HashMap may yield the keys ks
Orders(ks) ==
    {o \in [1..Cardinality(ks) -> ks] : \A i, j \in DOMAIN o : i # j => o[i] # o[j]}

\* the --version values tried: none, or 1.0.0
AddVersions == {None, Some(V100)}

\* whether a version is within the model's bound on patch numbers
Bounded(v) ==
    LET parts == Split(v)
    IN Len(parts) = 3 => /\ ParseOrZero(parts[3]).hi = 0
                         /\ ParseOrZero(parts[3]).lo <= MaxPatch

\* what rand::random() may return when version is checked: the registry
\* offers no version beyond the bound, and the value is left FALSE where
\* check_latest_version does not read it
RandomFor(version) ==
    LET up == check_latest_version("none", version, TRUE, FALSE)
    IN IF up.usedRand /\ Bounded(up.value) THEN BOOLEAN ELSE {FALSE}

\* the builds to tell apart: with and without overflow checks when some
\* patch number checked is u32::MAX, and one otherwise
OverflowModes(m) ==
    IF \E k \in DepKeys(m) :
          LET parts == Split(DepOf(m, k))
          IN Len(parts) = 3 /\ ParseOrZero(parts[3]) = U32Max
    THEN BOOLEAN ELSE {TRUE}

Step(o, cmd, pkg, ver) ==
    /\ manifest' = o.m
    /\ cache' = o.c
    /\ last' = Cmd(cmd, pkg, ver, o, Files(manifest, cache))
    /\ faults' = IF o.failed = NoFault THEN faults ELSE faults + 1
    /\ UNCHANGED <<calls, vq, lq, proc, adds>>

Init ==
    /\ manifest = None
    /\ cache = EmptyCache
    /\ last = NoCmd
    /\ faults = 0
    /\ calls = NoCalls
    /\ vq = NoQuery
    /\ lq = NoLoad
    /\ proc = NoProc
    /\ adds = NoAdds

\* init.rs: execute, in an empty directory (the prompts and src/main.so are
\* left out): writes the default manifest
InitProject ==
    /\ manifest = None
    /\ Step(Out("ok", NoFault, Some(create_default_config), cache, <<>>, <<>>),
            "init", "none", None)

\* sop add <package> [--version V]
Add ==
    \E package \in Packages, version \in AddVersions :
        \E fault \in FaultsOn({package}) \ {Fault("rmdir", package)} :
            \E variant \in VariantsOf(fault) :
                Step(add_execute(manifest, cache, package, version, fault, variant),
                     "add", package, version)

\* sop setup
Setup ==
    \E order \in Orders(DepKeys(manifest)) :
        \E fault \in {f \in FaultsOn(DepKeys(manifest)) :
                          f.site \notin {"rmdir", "write_manifest"}} :
            Step(setup_execute(manifest, cache, order, fault), "setup", "none", None)

\* sop remove <package>
Remove ==
    \E package \in Packages :
        \E fault \in {f \in FaultsOn({package}) :
                          f.site \in {"none", "read", "write_manifest", "rmdir"}} :
            \E variant \in VariantsOf(fault) :
                Step(remove_execute(manifest, cache, package, fault, variant),
                     "remove", package, None)

\* sop update <package>
UpdateOne ==
    \E package \in Packages :
        \E rnd \in IF package \in DepKeys(manifest)
                    THEN RandomFor(DepOf(manifest, package)) ELSE {FALSE},
           overflowChecks \in OverflowModes(manifest),
           fault \in FaultsOn({package}) :
            \E variant \in VariantsOf(fault) :
                Step(update_execute(manifest, cache, Some(package), <<>>,
                                    [q \in Packages |-> rnd], overflowChecks,
                                    fault, variant),
                     "update", package, None)

\* sop update
UpdateAll ==
    \E order \in Orders(DepKeys(manifest)),
       rnd \in [Packages -> BOOLEAN],
       overflowChecks \in OverflowModes(manifest),
       fault \in FaultsOn(DepKeys(manifest)) :
        /\ \A q \in Packages :
              rnd[q] \in IF q \in DepKeys(manifest)
                         THEN RandomFor(DepOf(manifest, q)) ELSE {FALSE}
        /\ \E variant \in VariantsOf(fault) :
              Step(update_execute(manifest, cache, None, order, rnd, overflowChecks,
                                  fault, variant),
                   "update", "none", None)

Next == InitProject \/ Add \/ Setup \/ Remove \/ UpdateOne \/ UpdateAll

Spec == Init /\ [][Next]_vars

(***************************************************************************)
(* check_latest_version on its own: the specifier, what rand::random()      *)
(* returns and the build are drawn, and the function is applied to them.    *)
(***************************************************************************)
Alphabet == {"0", "1", ".", "x"}

Strings(n) == UNION {[1..k -> Alphabet] : k \in 0..n}

\* u32::MAX in decimal
MaxDigits == <<"4", "2", "9", "4", "9", "6", "7", "2", "9", "5">>

\* u32::MAX + 1 in decimal
OverDigits == <<"4", "2", "9", "4", "9", "6", "7", "2", "9", "6">>

SpecialVersions ==
    { Latest,
      <<"2", ".", "0", ".", "1">>,
      <<"1", ".", "2", ".", "3", ".", "4">>,
      <<"+", "1", ".", "+", "2", ".", "+", "3">>,
      <<"-", "1", ".", "2", ".", "3">>,
      <<"1", ".", "2", ".">> \o MaxDigits,
      MaxDigits \o <<".">> \o MaxDigits \o <<".">> \o MaxDigits,
      <<"1", ".", "2", ".">> \o OverDigits }

VersionInputs == Strings(MaxLen) \cup SpecialVersions

InitVersion ==
    /\ manifest = None
    /\ cache = EmptyCache
    /\ last = NoCmd
    /\ faults = 0
    /\ calls = NoCalls
    /\ vq \in {[NoQuery EXCEPT !.package = p, !.current = s, !.rnd = r,
                               !.overflowChecks = oc] :
                  p \in Packages, s \in VersionInputs, r \in BOOLEAN, oc \in BOOLEAN}
    /\ lq = NoLoad
    /\ proc = NoProc
    /\ adds = NoAdds

CheckLatestVersion ==
    /\ ~vq.asked
    /\ vq' = [vq EXCEPT !.asked = TRUE,
                        !.result = check_latest_version(vq.package, vq.current,
                                                        vq.rnd, vq.overflowChecks)]
    /\ UNCHANGED <<manifest, cache, last, faults, calls, lq, proc, adds>>

NextVersion == CheckLatestVersion

SpecVersion == InitVersion /\ [][NextVersion]_vars

(***************************************************************************)
(* install_package on its own: the cache, the package and the version are   *)
(* drawn, and add.rs's or setup.rs's install_package is called on them up   *)
(* to MaxCalls times in a row, each call with or without an I/O fault.      *)
(* calls keeps the arguments, the cache at the start and each call's result *)
(* with the cache as the call left it.                                      *)
(***************************************************************************)
InstallVersions == {Latest, V100}

\* the states a package directory can be in: absent, or present with each
\* file written or not (an install or a removal that failed part-way)
DirStates(p) ==
    {None} \cup {Some(PkgDir(meta, lib)) :
                    meta \in {None} \cup {Some(Metadata(p, v)) : v \in InstallVersions},
                    lib \in {None, Some(p)}}

CacheStates ==
    {EmptyCache}
    \cup {Cache(TRUE, f) : f \in {g \in [Packages -> UNION {DirStates(p) : p \in Packages}] :
                                    \A p \in Packages : g[p] \in DirStates(p)}}

InstallFaults(p) ==
    {NoFault, Fault("mkdir_pkg", p), Fault("write_meta", p), Fault("write_lib", p)}

InitInstall ==
    /\ manifest = None
    /\ cache \in CacheStates
    /\ last = NoCmd
    /\ faults = 0
    /\ calls \in {[NoCalls EXCEPT !.pkg = p, !.ver = v, !.start = cache] :
                     p \in Packages, v \in InstallVersions}
    /\ vq = NoQuery
    /\ lq = NoLoad
    /\ proc = NoProc
    /\ adds = NoAdds

Called(fn, r) ==
    /\ cache' = r.c
    /\ calls' = [calls EXCEPT !.results = Append(@, InstallResult(fn, r))]
    /\ UNCHANGED <<manifest, last, faults, vq, lq, proc, adds>>

AddInstall ==
    /\ Len(calls.results) < MaxCalls
    /\ \E fault \in InstallFaults(calls.pkg) :
          Called("add", add_install_package(cache, calls.pkg, calls.ver, fault))

SetupInstall ==
    /\ Len(calls.results) < MaxCalls
    /\ \E fault \in InstallFaults(calls.pkg) :
          Called("setup", setup_install_package(cache, calls.pkg, calls.ver, fault))

NextInstall == AddInstall \/ SetupInstall

SpecInstall == InitInstall /\ [][NextInstall]_vars

(***************************************************************************)
(* read_sop_toml on its own: the text of sop.toml is drawn, each key of     *)
(* [project] and the [dependencies] table being absent, valid or of the     *)
(* wrong type, and the file is loaded.  The keys with a default that are    *)
(* drawn in all three states are description, keywords and dependencies;    *)
(* the other keys with a default are absent or valid.                       *)
(***************************************************************************)
Contents ==
    {Content(pr, d) :
        pr \in {f \in [ProjectFields -> KeyStates] :
                   \A k \in DefaultedFields \ {"description", "keywords"} :
                      f[k] # "mistyped"},
        d \in KeyStates}

InitLoad ==
    /\ manifest = None
    /\ cache = EmptyCache
    /\ last = NoCmd
    /\ faults = 0
    /\ calls = NoCalls
    /\ vq = NoQuery
    /\ lq \in {[NoLoad EXCEPT !.file = f, !.readFails = rf] :
                  f \in {None} \cup {Some(x) : x \in Contents}, rf \in BOOLEAN}
    /\ proc = NoProc
    /\ adds = NoAdds

ReadSopToml ==
    /\ ~lq.asked
    /\ lq' = [lq EXCEPT !.asked = TRUE, !.result = read_content(lq.file, lq.readFails)]
    /\ UNCHANGED <<manifest, cache, last, faults, calls, vq, proc, adds>>

NextLoad == ReadSopToml

SpecLoad == InitLoad /\ [][NextLoad]_vars

(***************************************************************************)
(* setup on its own: the manifest and the cache are drawn, among them the   *)
(* states that failed commands and edits of sop.toml leave, and setup runs  *)
(* on them, with or without an I/O fault.                                   *)
(***************************************************************************)
\* the dependency maps over the packages
DepMaps == UNION {[ks -> InstallVersions] : ks \in SUBSET Packages}

\* the states of sop.toml: no file, a file the parser rejects, a manifest
\* without a [dependencies] table, a manifest with one
ManifestStates ==
    {None, Some(Corrupt), Some(SopToml(None))} \cup {Some(SopToml(Some(d))) : d \in DepMaps}

InitSetup ==
    /\ manifest \in ManifestStates
    /\ cache \in CacheStates
    /\ last = NoCmd
    /\ faults = 0
    /\ calls = NoCalls
    /\ vq = NoQuery
    /\ lq = NoLoad
    /\ proc = NoProc
    /\ adds = NoAdds

NextSetup == Setup

SpecSetup == InitSetup /\ [][NextSetup]_vars

(***************************************************************************)
(* The command line: the project is drawn as for setup, and commands are    *)
(* run through main and Cli::execute.  proc is the last process: its        *)
(* command line, its exit code and what it wrote to the error stream.       *)
(***************************************************************************)
\* main.rs: main, on one command line
Main(command) ==
    LET o == cli_execute(command, manifest, cache)
    IN /\ manifest' = o.m
       /\ cache' = o.c
       /\ proc' = [command |-> command, exit |-> Exit(o.res).exit,
                   stderr |-> Exit(o.res).stderr]
       /\ UNCHANGED <<last, faults, calls, vq, lq, adds>>

InitCli ==
    /\ manifest \in ManifestStates
    /\ cache \in CacheStates
    /\ last = NoCmd
    /\ faults = 0
    /\ calls = NoCalls
    /\ vq = NoQuery
    /\ lq = NoLoad
    /\ proc = NoProc
    /\ adds = NoAdds

\* sop init -y
CliInit == Main(Command("init", "none", None))

\* sop setup
CliSetup == Main(Command("setup", "none", None))

\* sop add <package> [--version V]
CliAdd == \E package \in Packages, version \in AddVersions :
              Main(Command("add", package, version))

\* sop remove <package>
CliRemove == \E package \in Packages : Main(Command("remove", package, None))

\* sop run
CliRun == Main(Command("run", "none", None))

\* sop update [package]
CliUpdate == \E package \in Packages \cup {"none"} : Main(Command("update", package, None))

NextCli == CliInit \/ CliSetup \/ CliAdd \/ CliRemove \/ CliRun \/ CliUpdate

SpecCli == InitCli /\ [][NextCli]_vars

(***************************************************************************)
(* add run by two processes on one project: no lock is taken, so the steps  *)
(* of the two (load, save, install) interleave in any order.  The project   *)
(* and the arguments are drawn; no I/O call fails.                          *)
(***************************************************************************)
InitConcurrent ==
    /\ manifest \in ManifestStates
    /\ cache \in CacheStates
    /\ last = NoCmd
    /\ faults = 0
    /\ calls = NoCalls
    /\ vq = NoQuery
    /\ lq = NoLoad
    /\ proc = NoProc
    /\ adds \in {[NoAdds EXCEPT !.run = r] :
                    r \in [Procs -> {AddProc("load", pkg, ver, Corrupt, "none") :
                                        pkg \in Packages, ver \in AddVersions}]}

\* the process after its load: on to the save, or returned with the error
AfterLoad(pr, ld) ==
    AddProc(IF ld.res = "ok" THEN "save" ELSE "done", pr.pkg, pr.ver, ld.config,
            IF ld.res = "ok" THEN "none" ELSE ld.res)

\* add.rs: execute, lines 11-44
LoadStep ==
    \E p \in Procs :
        /\ adds.run[p].pc = "load"
        /\ adds' = [adds EXCEPT
                       !.run[p] = AfterLoad(@, add_load(manifest, @.pkg, @.ver))]
        /\ UNCHANGED <<manifest, cache, last, faults, calls, vq, lq, proc>>

\* add.rs: execute, line 47
SaveStep ==
    \E p \in Procs :
        /\ adds.run[p].pc = "save"
        /\ manifest' = add_save(manifest, adds.run[p].config)
        /\ adds' = [adds EXCEPT !.run[p].pc = "install", !.saves = Append(@, p)]
        /\ UNCHANGED <<cache, last, faults, calls, vq, lq, proc>>

\* add.rs: execute, lines 50-61
InstallStep ==
    \E p \in Procs :
        /\ adds.run[p].pc = "install"
        /\ cache' = add_install(cache, adds.run[p].pkg, VersionStr(adds.run[p].ver))
        /\ adds' = [adds EXCEPT !.run[p].pc = "done", !.run[p].res = "ok"]
        /\ UNCHANGED <<manifest, last, faults, calls, vq, lq, proc>>

NextConcurrent == LoadStep \/ SaveStep \/ InstallStep

SpecConcurrent == InitConcurrent /\ [][NextConcurrent]_vars

(***************************************************************************)
(* The properties.                                                          *)
(***************************************************************************)
\* the directory of package q in cache c, if any
DirOf(c, q) == c.pkgs[q]

\* the dependency map of a manifest that loads
DepsOf(m) == Unwrap(m).dependencies

\* a manifest that loads and has a dependency table
HasDeps(m) == IsSome(m) /\ Unwrap(m).parses /\ IsSome(DepsOf(m))

\* C1: whenever setup, add or update returns success, every key of the
\* manifest's dependency map has a directory in the module cache.
C1_ManifestCacheConsistent ==
    (last.cmd \in {"setup", "add", "update"} /\ last.res = "ok")
        => \A n \in DepKeys(manifest) : IsSome(DirOf(cache, n))

\* C2: add(foo) with no version in a project with an empty dependency map
\* and an empty cache writes foo = "latest", and a following setup leaves
\* sop_modules/foo with metadata that records version 1.0.0.
C2_AddThenSetupRecordsResolved ==
    [][ ( /\ last.cmd = "add" /\ last.pkg = "foo" /\ last.ver = None
          /\ last.res = "ok"
          /\ HasDeps(last.before.m) /\ DepKeys(last.before.m) = {}
          /\ last.before.c = EmptyCache
          /\ last'.cmd = "setup" /\ last'.res = "ok" )
        => ( /\ DepOf(manifest, "foo") = Latest
             /\ IsSome(DirOf(cache', "foo"))
             /\ IsSome(Unwrap(DirOf(cache', "foo")).meta)
             /\ Unwrap(Unwrap(DirOf(cache', "foo")).meta).version = V100 ) ]_vars

\* C3: install_package of add and of setup is idempotent: a call that meets
\* no I/O failure succeeds, and a call after a successful call with the same
\* arguments succeeds and leaves the cache as the first call left it.
C3_InstallIdempotent ==
    /\ \A i \in DOMAIN calls.results :
          calls.results[i].failed = NoFault => calls.results[i].res = "ok"
    /\ \A i \in DOMAIN calls.results :
          (i > 1 /\ calls.results[i - 1].res = "ok")
              => /\ calls.results[i].res = "ok"
                 /\ calls.results[i].c = calls.results[i - 1].c

\* two successful calls in a row on a package that had no directory, the
\* first of which installed it
C3_Witness ==
    /\ Len(calls.results) = 2
    /\ DirOf(calls.start, calls.pkg) = None
    /\ calls.results[1].res = "ok" /\ calls.results[2].res = "ok"
    /\ DirOf(cache, calls.pkg) = Some(Installed(calls.pkg, calls.ver))

\* C4: when the package's directory exists, install_package as add and setup
\* call it returns success and writes nothing to that directory, whatever
\* version is recorded or requested; setup leaves every directory that
\* existed as it was.
C4_InstallShortCircuit ==
    /\ last.cmd \in {"add", "setup"}
          => \A i \in DOMAIN last.installs :
                IsSome(DirOf(last.before.c, last.installs[i].pkg))
                    => /\ last.installs[i].res = "ok"
                       /\ DirOf(cache, last.installs[i].pkg)
                              = DirOf(last.before.c, last.installs[i].pkg)
    /\ last.cmd = "setup"
          => \A q \in Packages :
                IsSome(DirOf(last.before.c, q))
                    => DirOf(cache, q) = DirOf(last.before.c, q)

\* setup called install_package for an entry whose directory existed and
\* did not record the version of the entry
C4_Witness ==
    /\ last.cmd = "setup" /\ last.res = "ok"
    /\ \E i \in DOMAIN last.installs :
          LET d == DirOf(last.before.c, last.installs[i].pkg)
          IN /\ IsSome(d)
             /\ IsSome(Unwrap(d).meta)
             /\ Unwrap(Unwrap(d).meta).version # last.installs[i].ver

\* C5: a successful add followed by a successful remove of the same package
\* restores the dependency map as it was before the add, leaves no directory
\* for the package, and leaves the other packages' directories as before.
C5_AddRemoveRestores ==
    [][ ( /\ last.cmd = "add" /\ last.res = "ok"
          /\ last'.cmd = "remove" /\ last'.res = "ok"
          /\ last'.pkg = last.pkg )
        => ( /\ HasDeps(manifest')
             /\ DepsOf(manifest') = DepsOf(last.before.m)
             /\ DirOf(cache', last.pkg) = None
             /\ \A q \in Packages \ {last.pkg} :
                   DirOf(cache', q) = DirOf(last.before.c, q) ) ]_vars

\* a successful remove of a package that was in the manifest and installed
\* as add installs it, with another package listed and installed
C5_Witness ==
    /\ last.cmd = "remove" /\ last.res = "ok"
    /\ last.pkg \in DepKeys(last.before.m)
    /\ DirOf(last.before.c, last.pkg)
           = Some(Installed(last.pkg, DepOf(last.before.m, last.pkg)))
    /\ DirOf(cache, last.pkg) = None
    /\ last.pkg \notin DepKeys(manifest)
    /\ \E q \in DepKeys(manifest) : IsSome(DirOf(cache, q))

\* C6: add of a package that is already a key of the dependency map fails
\* with AlreadyPresent and changes neither the manifest nor the cache.
C6_AddAlreadyPresent ==
    (last.cmd = "add" /\ last.pkg \in DepKeys(last.before.m))
        => /\ last.failed.site # "read" => last.res = "AlreadyPresent"
           /\ last.res # "ok"
           /\ manifest = last.before.m
           /\ cache = last.before.c

\* add of a listed package with a version other than the one listed
C6_Witness ==
    /\ last.cmd = "add" /\ last.res = "AlreadyPresent"
    /\ DepOf(manifest, last.pkg) # VersionStr(last.ver)

\* C7: remove of a package that is not a key of the dependency map fails
\* with NotPresent, leaves the manifest as it was and deletes nothing from
\* the cache, even when a directory of that name exists.
C7_RemoveNotPresent ==
    (last.cmd = "remove" /\ HasDeps(last.before.m)
        /\ last.pkg \notin DepKeys(last.before.m))
        => /\ last.failed.site # "read" => last.res = "NotPresent"
           /\ last.res # "ok"
           /\ manifest = last.before.m
           /\ cache = last.before.c

\* remove of an unlisted package whose directory exists
C7_Witness ==
    /\ last.cmd = "remove" /\ last.res = "NotPresent"
    /\ IsSome(DirOf(cache, last.pkg))

\* a component made of decimal digits only
IsNumeric(part) == part # <<>> /\ \A i \in DOMAIN part : IsDigit(part[i])

\* three numeric dot-separated components
IsSemver(s) ==
    /\ Len(Split(s)) = 3
    /\ \A i \in 1..3 : IsNumeric(Split(s)[i])

\* C8: check_latest_version given a specifier that is not three numeric
\* dot-separated components returns "1.0.0", whatever the update decision.
C8_MalformedGivesInitial ==
    (vq.asked /\ ~IsSemver(vq.current))
        => (vq.result.kind = "ok" /\ vq.result.value = V100)

\* C9: check_latest_version given "latest" returns "1.0.0" for every package
\* and every update decision, and does not call rand::random().
C9_LatestGivesInitial ==
    (vq.asked /\ vq.current = Latest) => vq.result = VOk(V100, FALSE)

\* "latest" checked with an update decision that would bump
C9_Witness ==
    /\ vq.asked /\ vq.current = Latest /\ vq.rnd
    /\ vq.result.kind = "ok" /\ vq.result.value = V100

\* the decimal form of patch + 1, beyond u32 too
NextPatch(patch) ==
    IF patch = U32Max THEN OverDigits ELSE FormatU32(WrappingIncr(patch))

\* C10: for a current version of three components that are u32 values,
\* check_latest_version returns, without failing, current unchanged or
\* major.minor.(patch+1).
C10_PatchIncrement ==
    ( /\ vq.asked /\ IsSemver(vq.current)
      /\ \A i \in 1..3 : IsSome(ParseU32(Split(vq.current)[i])) )
        => /\ vq.result.kind = "ok"
           /\ \/ vq.result.value = vq.current
              \/ vq.result.value
                    = FormatU32(ParseOrZero(Split(vq.current)[1])) \o <<Dot>>
                      \o FormatU32(ParseOrZero(Split(vq.current)[2])) \o <<Dot>>
                      \o NextPatch(ParseOrZero(Split(vq.current)[3]))

\* a package directory that holds both its files
Complete(d) == IsSome(d) /\ IsSome(Unwrap(d).meta) /\ IsSome(Unwrap(d).lib)

\* the packages a command checked, in the order it checked them
CheckedPkgs(l) == {l.checked[i].pkg : i \in DOMAIN l.checked}

\* C11: when update gets a version V' other than the recorded V and no I/O
\* call fails, at completion the manifest maps the package to V' and the
\* package directory is what install at V' writes in an empty place, whether
\* or not a directory existed before.
C11_UpdateReinstalls ==
    (last.cmd = "update" /\ last.res = "ok" /\ last.failed = NoFault)
        => \A i \in DOMAIN last.checked :
              last.checked[i].from # last.checked[i].to
                  => /\ last.checked[i].pkg \in DepKeys(manifest)
                     /\ DepOf(manifest, last.checked[i].pkg) = last.checked[i].to
                     /\ DirOf(cache, last.checked[i].pkg)
                            = Some(Installed(last.checked[i].pkg, last.checked[i].to))

\* an update that got a new version for a package installed at the old one
C11_Witness ==
    /\ last.cmd = "update" /\ last.res = "ok"
    /\ \E i \in DOMAIN last.checked :
          /\ last.checked[i].from # last.checked[i].to
          /\ DirOf(last.before.c, last.checked[i].pkg)
                 = Some(Installed(last.checked[i].pkg, last.checked[i].from))
          /\ DirOf(cache, last.checked[i].pkg)
                 = Some(Installed(last.checked[i].pkg, last.checked[i].to))

\* C12: a successful remove of a listed package leaves the name out of the
\* manifest and no directory for it, changes no other entry or directory,
\* and succeeds when the package directory is missing.
C12_RemoveSucceeds ==
    /\ (last.cmd = "remove" /\ last.res = "ok")
          => /\ last.pkg \in DepKeys(last.before.m)
             /\ HasDeps(manifest)
             /\ DepsOf(manifest) = Some(Delete(Unwrap(DepsOf(last.before.m)), last.pkg))
             /\ DirOf(cache, last.pkg) = None
             /\ \A q \in Packages \ {last.pkg} :
                   DirOf(cache, q) = DirOf(last.before.c, q)
    /\ ( /\ last.cmd = "remove" /\ last.failed = NoFault
         /\ HasDeps(last.before.m) /\ last.pkg \in DepKeys(last.before.m)
         /\ DirOf(last.before.c, last.pkg) = None )
          => (last.res = "ok" /\ last.pkg \notin DepKeys(manifest))

\* a successful remove of a listed package that had no directory, with
\* another package listed
C12_Witness ==
    /\ last.cmd = "remove" /\ last.res = "ok"
    /\ DirOf(last.before.c, last.pkg) = None
    /\ DepKeys(manifest) # {}

\* C13: setup leaves the manifest as it was on every path, and neither
\* deletes nor rewrites a directory that existed.
C13_SetupFrame ==
    last.cmd = "setup"
        => /\ manifest = last.before.m
           /\ last.before.c.root => cache.root
           /\ \A q \in Packages :
                 IsSome(DirOf(last.before.c, q))
                     => DirOf(cache, q) = DirOf(last.before.c, q)

\* a setup that installed one package and failed at the install of another,
\* on a manifest that lists a specifier to resolve
C13_Witness ==
    /\ last.cmd = "setup" /\ last.res = "IoError"
    /\ Len(last.installs) = 2
    /\ \E q \in Packages : DirOf(last.before.c, q) = None /\ Complete(DirOf(cache, q))
    /\ \E q \in DepKeys(manifest) : DepOf(manifest, q) = Latest

\* C14: a manifest save that fails leaves the complete prior manifest.
C14_SaveAtomic ==
    last.failed.site = "write_manifest" => manifest = last.before.m

\* C17: a package directory exists only if it holds both its metadata and
\* its content file.
C17_DirectoryImpliesInstall ==
    \A q \in Packages : IsSome(DirOf(cache, q)) => Complete(DirOf(cache, q))

\* C18: when add fails at the creation of sop_modules or at the install, it
\* returns an error, the manifest already lists the package with the
\* requested specifier, and the cache holds no completed install of it.
C18_AddPersistsFirst ==
    ( /\ last.cmd = "add"
      /\ last.failed.site \in {"mkdir_root", "mkdir_pkg", "write_meta", "write_lib"} )
        => /\ last.res # "ok"
           /\ last.pkg \notin DepKeys(last.before.m)
           /\ last.pkg \in DepKeys(manifest)
           /\ DepOf(manifest, last.pkg) = VersionStr(last.ver)
           /\ ~Complete(DirOf(cache, last.pkg))

\* an add whose install failed at the second file
C18_Witness ==
    /\ last.cmd = "add" /\ last.failed = Fault("write_lib", last.pkg)
    /\ last.pkg \in DepKeys(manifest)
    /\ IsSome(DirOf(cache, last.pkg))

\* C19: after commands that failed with I/O errors, a setup that meets no
\* I/O failure returns success, leaves every manifest dependency with a
\* directory and leaves the directories that existed untouched.
C19_SetupRecovers ==
    (last.cmd = "setup" /\ last.failed = NoFault /\ file_exists(last.before.m))
        => /\ last.res = "ok"
           /\ \A n \in DepKeys(manifest) : IsSome(DirOf(cache, n))
           /\ \A q \in Packages :
                 IsSome(DirOf(last.before.c, q))
                     => DirOf(cache, q) = DirOf(last.before.c, q)

\* C20: when update of all dependencies fails at the deletion or the
\* reinstall of a package, it returns the error, that package is the last
\* one checked, the packages not checked keep their directories as they
\* were, and the packages updated before keep their new directories.
C20_UpdateAllAborts ==
    ( /\ last.cmd = "update" /\ last.pkg = "none"
      /\ last.failed.site \in {"rmdir", "mkdir_pkg", "write_meta", "write_lib"} )
        => /\ last.res # "ok"
           /\ last.checked # <<>>
           /\ last.checked[Len(last.checked)].pkg = last.failed.pkg
           /\ \A q \in Packages \ CheckedPkgs(last) :
                 DirOf(cache, q) = DirOf(last.before.c, q)
           /\ \A i \in 1..(Len(last.checked) - 1) :
                 last.checked[i].from # last.checked[i].to
                     => DirOf(cache, last.checked[i].pkg)
                            = Some(Installed(last.checked[i].pkg, last.checked[i].to))

\* an update of two dependencies that failed at the first, the second one
\* having a new version to get
C20_Witness ==
    /\ last.cmd = "update" /\ last.pkg = "none" /\ last.res = "IoError"
    /\ last.failed.site \in {"rmdir", "mkdir_pkg", "write_meta", "write_lib"}
    /\ Len(last.checked) = 1
    /\ \E q \in DepKeys(last.before.m) \ CheckedPkgs(last) :
          /\ DepOf(last.before.m, q) = Latest
          /\ DirOf(cache, q) = Some(Installed(q, Latest))

\* the keys the specification of the manifest calls required
SpecRequired == {"name", "version", "entry"}

\* C15: the load of the manifest fails with NotFound when there is no file,
\* with a parse error exactly when name, version or entry is missing or of
\* the wrong type (no other key being of the wrong type), and succeeds with
\* every omitted field empty or absent when these three are the only keys.
C15_LoadRequiresThree ==
    (lq.asked /\ ~lq.readFails)
        => /\ ~IsSome(lq.file) <=> lq.result.res = "NotFound"
           /\ ( /\ IsSome(lq.file)
                /\ Unwrap(lq.file).dependencies # "mistyped"
                /\ \A f \in ProjectFields \ SpecRequired :
                      Unwrap(lq.file).project[f] # "mistyped" )
                 => ( lq.result.res = "ParseError"
                        <=> \E f \in SpecRequired : Unwrap(lq.file).project[f] # "valid" )
           /\ ( /\ IsSome(lq.file)
                /\ Unwrap(lq.file).dependencies = "absent"
                /\ \A f \in ProjectFields :
                      Unwrap(lq.file).project[f]
                          = IF f \in SpecRequired THEN "valid" ELSE "absent" )
                 => ( /\ lq.result.res = "ok"
                      /\ lq.result.dependencies = None
                      /\ \A f \in ProjectFields \ SpecRequired :
                            lq.result.project[f] = "default" )

\* the results the operation behind a command line can return on the
\* project as it is, when no I/O call fails
OperationResults(command) ==
    IF command.cmd = "add"
    THEN {add_execute(manifest, cache, command.pkg, command.ver, NoFault, NoVariant).res}
    ELSE IF command.cmd = "remove"
    THEN {remove_execute(manifest, cache, command.pkg, NoFault, NoVariant).res}
    ELSE IF command.cmd = "setup"
    THEN {setup_execute(manifest, cache, o, NoFault).res :
             o \in Orders(DepKeys(manifest))}
    ELSE IF command.cmd = "update"
    THEN {update_execute(manifest, cache,
                         IF command.pkg = "none" THEN None ELSE Some(command.pkg),
                         o, [q \in Packages |-> FALSE], TRUE, NoFault, NoVariant).res :
             o \in Orders(DepKeys(manifest))}
    ELSE {run_execute(manifest, found) : found \in BOOLEAN}

\* C16: for setup, add, remove, run and update the process exits with code 0
\* only if the operation succeeded, and exits non-zero with a message
\* prefixed "Error:" whenever the operation reports an error.
C16_ExitCodeReflectsOperation ==
    proc.command.cmd \in {"setup", "add", "remove", "run", "update"}
        => /\ proc.exit = 0 => "ok" \in OperationResults(proc.command)
           /\ "ok" \notin OperationResults(proc.command)
                 => /\ proc.exit # 0
                    /\ IsSome(proc.stderr)
                    /\ Unwrap(proc.stderr)[1] = "Error:"

\* the packages a successful update checks: the one named, or every key,
\* and none when the dependency map is empty
Targeted(l) ==
    IF DepKeys(l.before.m) = {} THEN {}
    ELSE IF l.pkg = "none" THEN DepKeys(l.before.m) ELSE {l.pkg}

\* C21: after a successful update the saved manifest has the keys it had,
\* maps every package checked to the version check_latest_version returned
\* and every other package to its specifier; a package whose version is
\* unchanged keeps its entry, and its directory is as it was.
C21_UpdateSavesAtEnd ==
    (last.cmd = "update" /\ last.res = "ok")
        => /\ HasDeps(manifest)
           /\ DepKeys(manifest) = DepKeys(last.before.m)
           /\ CheckedPkgs(last) = Targeted(last)
           /\ Len(last.checked) = Cardinality(Targeted(last))
           /\ \A i \in DOMAIN last.checked :
                 /\ DepOf(manifest, last.checked[i].pkg) = last.checked[i].to
                 /\ last.checked[i].from = DepOf(last.before.m, last.checked[i].pkg)
                 /\ last.checked[i].from = last.checked[i].to
                       => DirOf(cache, last.checked[i].pkg)
                              = DirOf(last.before.c, last.checked[i].pkg)
           /\ \A q \in DepKeys(manifest) \ CheckedPkgs(last) :
                 /\ DepOf(manifest, q) = DepOf(last.before.m, q)
                 /\ DirOf(cache, q) = DirOf(last.before.c, q)

\* a successful update of all dependencies that got a new version for one
\* package and none for another, whose directory was missing
C21_Witness ==
    /\ last.cmd = "update" /\ last.pkg = "none" /\ last.res = "ok"
    /\ \E i, j \in DOMAIN last.checked :
          /\ last.checked[i].from # last.checked[i].to
          /\ DepOf(manifest, last.checked[i].pkg) = last.checked[i].to
          /\ last.checked[j].from = last.checked[j].to
          /\ DirOf(cache, last.checked[j].pkg) = None

\* C22: when update returns an error before its final save, the manifest is
\* as it was before the command, whatever was reinstalled in the cache.
C22_UpdateErrorKeepsManifest ==
    (last.cmd = "update" /\ last.res # "ok" /\ last.failed.site # "write_manifest")
        => manifest = last.before.m

\* an update of all dependencies that reinstalled one package at a new
\* version and then failed at another: the manifest keeps the old version
C22_Witness ==
    /\ last.cmd = "update" /\ last.res = "IoError"
    /\ last.failed.site \in {"rmdir", "mkdir_pkg", "write_meta", "write_lib"}
    /\ \E i \in DOMAIN last.checked :
          /\ last.checked[i].from # last.checked[i].to
          /\ DirOf(cache, last.checked[i].pkg)
                 = Some(Installed(last.checked[i].pkg, last.checked[i].to))
          /\ DepOf(manifest, last.checked[i].pkg) = last.checked[i].from

\* C23: add, remove and update of one package, whether they succeed or fail
\* at any step, leave the directory of every other package as it was.
C23_SiblingIsolation ==
    (last.cmd \in {"add", "remove", "update"} /\ last.pkg # "none")
        => \A q \in Packages \ {last.pkg} :
              DirOf(cache, q) = DirOf(last.before.c, q)

\* an update of one package that deleted its directory and failed at the
\* reinstall, next to an installed package
C23_Witness ==
    /\ last.cmd = "update" /\ last.pkg # "none"
    /\ last.failed.site \in {"mkdir_pkg", "write_meta", "write_lib"}
    /\ DirOf(cache, last.pkg) # DirOf(last.before.c, last.pkg)
    /\ \E q \in Packages \ {last.pkg} : Complete(DirOf(cache, q))

\* both processes have returned Ok(())
BothAdded == \A p \in Procs : adds.run[p].pc = "done" /\ adds.run[p].res = "ok"

\* C24: no lock protects the span from load to save: when two adds have
\* both succeeded, both package directories exist and the manifest is the
\* config of the process that saved last, as that process loaded it plus its
\* own package, so an entry saved in between by the other process is lost.
C24_LastSaveWins ==
    BothAdded
        => /\ \A p \in Procs : IsSome(DirOf(cache, adds.run[p].pkg))
           /\ Len(adds.saves) = 2
           /\ manifest = Some(adds.run[adds.saves[2]].config)

\* two adds of different packages have both succeeded, both directories
\* exist, and the manifest lists only one of the two packages
C24_Witness ==
    /\ BothAdded
    /\ \A p \in Procs : Complete(DirOf(cache, adds.run[p].pkg))
    /\ \E p, q \in Procs :
          /\ adds.run[p].pkg # adds.run[q].pkg
          /\ adds.run[p].pkg \notin DepKeys(manifest)
          /\ adds.run[q].pkg \in DepKeys(manifest)

====
